---- MODULE Spec2Model ----
(***************************************************************************)
(* The in-memory user store (MemoryUserRepository), the User entity, the   *)
(* UserService and the HTTP handlers of hanacaraka, as a state machine.    *)
(*                                                                         *)
(* A *entities.User is an address into heap; the store's slice r.users is  *)
(* a sequence of addresses.  Every goroutine is a thread whose position    *)
(* is pc[t]; a store method is split at its lock operations and at each    *)
(* read and write of r.users, a service method at each store call and at   *)
(* each write to a User that other goroutines can reach.                   *)
(***************************************************************************)
EXTENDS Integers, Sequences, FiniteSets, TLC

VARIABLES
    heap,     \* heap[a]: the User at address a
    users,    \* r.users: sequence of addresses
    writer,   \* r.mutex: the thread that holds or is acquiring the write lock, 0 if none
    readers,  \* r.mutex: the threads that hold the read lock
    pc,       \* pc[t]: where thread t is
    cur,      \* cur[t]: the call thread t is running (layer, op, arguments)
    rop,      \* rop[t]: the store method thread t is in, with its arguments
    loc,      \* loc[t]: locals (the slice header read, the index found, existingUser)
    ret,      \* ret[t]: the store method's return values, set at its return statement
    menu,     \* what the callers of this run pass in, and how many calls they make
    hist      \* completed calls with their results and responses written, in order

vars == <<heap, users, writer, readers, pc, cur, rop, loc, ret, menu, hist>>

(* ------------------------------ bounds -------------------------------- *)

\* Calls started in one behaviour.
MaxCalls == 2

\* Goroutines that call Create at the same time in the concurrent-create run.
NCreators == 2

\* GetAll calls made while they do.
MaxLists == 2

\* Calls the second goroutine makes during the lifecycle scenario.
MaxOthers == 1

\* Calls started in one behaviour of the fairly scheduled run.
MaxFairCalls == 2

\* Calls started in one behaviour of the service-only runs.
MaxSvcCalls == 2

\* Requests started in one behaviour of the handler run.
MaxRequests == 2

\* Calls on one identifier started in one behaviour of the same-record run.
MaxRaceCalls == 3

Threads == 1..(NCreators + 1)

\* What uuid.New().String() returns for the n-th allocated User: never "" and
\* never the same twice.
UUIDs == <<"u1", "u2", "u3", "u4", "u5", "u6", "u7", "u8", "u9", "u10", "u11", "u12">>

\* Identifiers, names and emails a caller passes in.
ArgIds == {"", "u1", "zz"}
Alice == <<"Alice", "alice@example.com">>
Carol == <<"Carol", "carol@example.com">>
Blank == <<"", "">>

\* Two goroutines; either any identifier with one valid and one empty record, or
\* one seeded identifier with two valid records.
MenuMixed == [ids |-> ArgIds, data |-> {Alice, Blank}, calls |-> MaxCalls, active |-> {1, 2}]
MenuSameId == [ids |-> {"u1"}, data |-> {Alice, Carol}, calls |-> MaxCalls, active |-> {1, 2}]

\* Records with one field empty, and one whose fields are blanks only.
OnlyName == <<"Alice", "">>
OnlyEmail == <<"", "alice@example.com">>
Spaces == <<" ", " ">>

\* Two goroutines that call the service with the empty or a seeded identifier
\* and with every kind of record.
MenuService ==
    [ids |-> {"", "u1"}, data |-> {Alice, Blank, OnlyName, OnlyEmail, Spaces},
     calls |-> MaxSvcCalls, active |-> {1, 2}]

\* Two goroutines that call the service with each kind of identifier (empty,
\* seeded, unused) and records that lack the name, the email, both or neither.
MenuArgs ==
    [ids |-> ArgIds, data |-> {Alice, Blank, OnlyName, OnlyEmail},
     calls |-> MaxSvcCalls, active |-> {1, 2}]

\* Two goroutines that call the service with a seeded or an unused identifier
\* and a valid record.
MenuFailing ==
    [ids |-> {"u1", "zz"}, data |-> {Alice}, calls |-> MaxSvcCalls, active |-> {1, 2}]

\* Two goroutines that serve requests with the empty or a seeded path id and
\* a valid or an empty record (or a body that is not JSON), over a service that
\* is the UserService or fails.
MenuHandlers ==
    [ids |-> {"", "u1"}, data |-> {Alice, Blank}, calls |-> MaxRequests,
     active |-> {1, 2}, fails |-> {FALSE, TRUE}]

\* Three goroutines that get, list, update and delete the first seeded record.
MenuRace == [ids |-> {"u1"}, data |-> {Carol}, calls |-> MaxRaceCalls, active |-> {1, 2, 3}]

\* Two goroutines that serve requests with any path id and a valid or an empty
\* record (or a body that is not JSON), over the UserService.
MenuComposed ==
    [ids |-> ArgIds, data |-> {Alice, Blank}, calls |-> MaxRequests,
     active |-> {1, 2}, fails |-> {FALSE}]

\* Two goroutines, one valid record, and an identifier no seeded record has: the
\* calls that find a record are those on a record created earlier in the run.
MenuFair == [ids |-> {"zz"}, data |-> {Alice}, calls |-> MaxFairCalls, active |-> {1, 2}]

(* ------------------------------ entities ------------------------------ *)

NoUser == 0

ErrNotFound == "user not found"
ErrInvalidID == "invalid user ID"
ErrInvalidData == "invalid user data: name and email are required"
ErrRepository == "repository error"

NewUser(h, name, email) ==
    [ID |-> UUIDs[Len(h) + 1], Name |-> name, Email |-> email]

NewUserWithID(id, name, email) ==
    [ID |-> id, Name |-> name, Email |-> email]

\* Mutant of IsValid: || for &&, one non-empty field is enough.
IsValidEither(u) == u.Name # "" \/ u.Email # ""

IsValid(u) == u.Name # "" /\ u.Email # ""

\* Mutant of UpdateName: the value is written to the ID field.
UpdateNameWritesID(h, a, name) == [h EXCEPT ![a].ID = name]

UpdateName(h, a, name) == [h EXCEPT ![a].Name = name]

UpdateEmail(h, a, email) == [h EXCEPT ![a].Email = email]

(* ------------------------------- store -------------------------------- *)

\* Mutant of IndexOf: the scan stops one short of the end, i < len(us) - 1.
IndexOfSkipsLast(us, h, id) ==
    LET hits == {i \in 1..(Len(us) - 1) : h[us[i]].ID = id}
    IN  IF hits = {} THEN 0 ELSE CHOOSE i \in hits : \A j \in hits : i <= j

\* Mutant of IndexOf: an empty id matches the first record.
IndexOfEmptyMatches(us, h, id) ==
    LET hits == {i \in 1..Len(us) : h[us[i]].ID = id \/ id = ""}
    IN  IF hits = {} THEN 0 ELSE CHOOSE i \in hits : \A j \in hits : i <= j

\* Mutant of IndexOf: the scan keeps the last match, not the first.
IndexOfLast(us, h, id) ==
    LET hits == {i \in 1..Len(us) : h[us[i]].ID = id}
    IN  IF hits = {} THEN 0 ELSE CHOOSE i \in hits : \A j \in hits : i >= j

\* for i, user := range us { if user.ID == id { ... } }: the first index, 0 if none.
IndexOf(us, h, id) ==
    LET hits == {i \in 1..Len(us) : h[us[i]].ID = id}
    IN  IF hits = {} THEN 0 ELSE CHOOSE i \in hits : \A j \in hits : i <= j

\* Mutant of RemoveAt: the slice is cut at the match, r.users[:i], and the tail lost.
RemoveAtTruncates(us, i) == SubSeq(us, 1, i - 1)

\* append(us[:i], us[i+1:]...)
RemoveAt(us, i) == SubSeq(us, 1, i - 1) \o SubSeq(us, i + 1, Len(us))

NoCall == [layer |-> "none", op |-> "none", id |-> "", name |-> "", email |-> "", before |-> 0]
NoOp == [op |-> "none", id |-> "", user |-> NoUser]
NoLoc == [snap |-> <<>>, i |-> 0, existing |-> NoUser]
NoRet == [user |-> NoUser, list |-> <<>>, err |-> ""]

\* Mutant of SeedHeap: the second and third sample records are appended in the
\* other order.
SeedHeapReordered ==
    LET h1 == <<NewUser(<<>>, "John Doe", "john@example.com")>>
        h2 == Append(h1, NewUser(h1, "Bob Johnson", "bob@example.com"))
    IN  Append(h2, NewUser(h2, "Jane Smith", "jane@example.com"))

\* NewMemoryUserRepository
SeedHeap ==
    LET h1 == <<NewUser(<<>>, "John Doe", "john@example.com")>>
        h2 == Append(h1, NewUser(h1, "Jane Smith", "jane@example.com"))
    IN  Append(h2, NewUser(h2, "Bob Johnson", "bob@example.com"))

\* The program after NewMemoryUserRepository and NewUserService, no call made yet.
Constructed ==
    /\ heap = SeedHeap
    /\ users = <<1, 2, 3>>
    /\ writer = 0
    /\ readers = {}
    /\ pc = [t \in Threads |-> "idle"]
    /\ cur = [t \in Threads |-> NoCall]
    /\ rop = [t \in Threads |-> NoOp]
    /\ loc = [t \in Threads |-> NoLoc]
    /\ ret = [t \in Threads |-> NoRet]
    /\ hist = <<>>

Init ==
    /\ Constructed
    /\ menu \in {MenuMixed, MenuSameId}

(* ------------------------------ r.mutex ------------------------------- *)

\* The first statement of a store method after it has the lock.
Body(op) ==
    CASE op = "GetAll" -> "GetAll"
      [] op = "GetByID" -> "GetByID"
      [] op = "Create" -> "CreateRead"
      [] op = "Update" -> "UpdateScan"
      [] op = "Delete" -> "DeleteScan"

\* Mutant of RLock: a reader enters even while a writer holds the lock.
RLockIgnoresWriter(t) ==
    /\ pc[t] = "RLock"
    /\ readers' = readers \cup {t}
    /\ pc' = [pc EXCEPT ![t] = Body(rop[t].op)]
    /\ UNCHANGED <<heap, users, writer, cur, rop, loc, ret, menu, hist>>

\* r.mutex.RLock(): a reader enters unless a writer holds or awaits the lock; then
\* it sleeps until that writer's Unlock.
RLock(t) ==
    /\ pc[t] = "RLock"
    /\ IF writer = 0
       THEN /\ readers' = readers \cup {t}
            /\ pc' = [pc EXCEPT ![t] = Body(rop[t].op)]
       ELSE /\ readers' = readers
            /\ pc' = [pc EXCEPT ![t] = "rwait"]
    /\ UNCHANGED <<heap, users, writer, cur, rop, loc, ret, menu, hist>>

\* Mutant of Lock: a writer waits for the readers inside but not for a writer.
LockIgnoresWriters(t) ==
    /\ pc[t] = "Lock"
    /\ writer' = t
    /\ pc' = [pc EXCEPT ![t] = IF readers = {} THEN Body(rop[t].op) ELSE "wdrain"]
    /\ UNCHANGED <<heap, users, readers, cur, rop, loc, ret, menu, hist>>

\* Mutant of Lock: a writer enters without waiting for writers or readers.
LockExcludesNobody(t) ==
    /\ pc[t] = "Lock"
    /\ writer' = t
    /\ pc' = [pc EXCEPT ![t] = Body(rop[t].op)]
    /\ UNCHANGED <<heap, users, readers, cur, rop, loc, ret, menu, hist>>

\* r.mutex.Lock(): one writer at a time announces itself, then waits for the
\* readers inside to leave.
Lock(t) ==
    /\ pc[t] = "Lock"
    /\ writer = 0
    /\ writer' = t
    /\ pc' = [pc EXCEPT ![t] = IF readers = {} THEN Body(rop[t].op) ELSE "wdrain"]
    /\ UNCHANGED <<heap, users, readers, cur, rop, loc, ret, menu, hist>>

LockDrain(t) ==
    /\ pc[t] = "wdrain"
    /\ readers = {}
    /\ pc' = [pc EXCEPT ![t] = Body(rop[t].op)]
    /\ UNCHANGED <<heap, users, writer, readers, cur, rop, loc, ret, menu, hist>>

(* --------------------------- call and return -------------------------- *)

\* The completed calls of thread t, oldest first.
CallsOf(t) == SelectSeq(hist, LAMBDA e : e.t = t)

\* Calls begun so far by the goroutines that choose from the menu.
Started ==
    Cardinality({k \in 1..Len(hist) : hist[k].t \in menu.active})
        + Cardinality({t \in menu.active : pc[t] # "idle"})

\* Goroutines are interchangeable: the first call of a run is made by the lowest
\* of those that choose from the menu.
CanCall(t) ==
    /\ t \in menu.active
    /\ pc[t] = "idle"
    /\ Started < menu.calls
    /\ Started = 0 => \A u \in menu.active : t <= u

NoVal == [ID |-> "", Name |-> "", Email |-> ""]

\* What a finished call leaves with its caller: the pointers returned, and what
\* they pointed to at the return.
Entry(t, c, r) ==
    [t |-> t, layer |-> c.layer, op |-> c.op, id |-> c.id, name |-> c.name,
     email |-> c.email, before |-> c.before,
     user |-> r.user, val |-> IF r.user = NoUser THEN NoVal ELSE heap[r.user],
     list |-> r.list, vals |-> [k \in 1..Len(r.list) |-> heap[r.list[k]]],
     err |-> r.err]

\* Identifiers these goroutines have been handed in an earlier result.
KnownIds ==
    {hist[k].val.ID :
        k \in {j \in 1..Len(hist) : hist[j].user # NoUser /\ hist[j].t \in menu.active}}

CallIds == menu.ids \cup KnownIds

\* The call of thread t returns r to its caller.
Done(t, c, r) ==
    /\ hist' = Append(hist, Entry(t, c, r))
    /\ pc' = [pc EXCEPT ![t] = "idle"]
    /\ cur' = [cur EXCEPT ![t] = NoCall]
    /\ rop' = [rop EXCEPT ![t] = NoOp]
    /\ loc' = [loc EXCEPT ![t] = NoLoc]
    /\ ret' = [ret EXCEPT ![t] = NoRet]

\* Thread t enters store method o: its first statement takes the lock.
Enter(t, c, o) ==
    /\ pc' = [pc EXCEPT ![t] = IF o.op \in {"GetAll", "GetByID"} THEN "RLock" ELSE "Lock"]
    /\ cur' = [cur EXCEPT ![t] = c]
    /\ rop' = [rop EXCEPT ![t] = o]
    /\ loc' = [loc EXCEPT ![t] = NoLoc]
    /\ ret' = [ret EXCEPT ![t] = NoRet]
    /\ hist' = hist

Call(layer, op, id, name, email) ==
    [layer |-> layer, op |-> op, id |-> id, name |-> name, email |-> email,
     before |-> Len(hist)]

\* Mutant of Continue: UpdateUser and DeleteUser answer every failure of their
\* existence check with "user not found".
ContinueAsNotFound(t) ==
    LET c == cur[t]
        o == rop[t]
        r == ret[t]
        check == c.layer = "service" /\ c.op \in {"UpdateUser", "DeleteUser"}
                    /\ o.op = "GetByID"
    IN  IF ~check THEN Done(t, c, r)
        ELSE IF r.err # "" \/ r.user = NoUser
        THEN Done(t, c, [NoRet EXCEPT !.err = ErrNotFound])
        ELSE IF c.op = "UpdateUser"
        THEN /\ pc' = [pc EXCEPT ![t] = "UpdateName"]
             /\ loc' = [loc EXCEPT ![t] = [NoLoc EXCEPT !.existing = r.user]]
             /\ rop' = [rop EXCEPT ![t] = NoOp]
             /\ ret' = [ret EXCEPT ![t] = NoRet]
             /\ UNCHANGED <<cur, menu, hist>>
        ELSE Enter(t, c, [op |-> "Delete", id |-> c.id, user |-> NoUser])

\* The caller's code after store method rop[t] has returned ret[t]: a direct
\* caller and the pass-through service methods return it; UpdateUser and
\* DeleteUser go on after their existence check.
Continue(t) ==
    LET c == cur[t]
        o == rop[t]
        r == ret[t]
        check == c.layer = "service" /\ c.op \in {"UpdateUser", "DeleteUser"}
                    /\ o.op = "GetByID"
    IN  IF ~check THEN Done(t, c, r)
        ELSE IF r.err # "" THEN Done(t, c, [NoRet EXCEPT !.err = r.err])
        ELSE IF r.user = NoUser THEN Done(t, c, [NoRet EXCEPT !.err = ErrNotFound])
        ELSE IF c.op = "UpdateUser"
        THEN /\ pc' = [pc EXCEPT ![t] = "UpdateName"]
             /\ loc' = [loc EXCEPT ![t] = [NoLoc EXCEPT !.existing = r.user]]
             /\ rop' = [rop EXCEPT ![t] = NoOp]
             /\ ret' = [ret EXCEPT ![t] = NoRet]
             /\ UNCHANGED <<cur, menu, hist>>
        ELSE Enter(t, c, [op |-> "Delete", id |-> c.id, user |-> NoUser])

\* defer r.mutex.RUnlock()
RUnlock(t) ==
    /\ pc[t] = "RUnlock"
    /\ readers' = readers \ {t}
    /\ Continue(t)
    /\ UNCHANGED <<heap, users, writer, menu>>

\* Mutant of Unlock: the method unlocks before its successful return only, not
\* by defer, so the "user not found" return keeps the lock.
UnlockOnSuccessOnly(t) ==
    /\ pc[t] = "Unlock"
    /\ writer' = IF ret[t].err = "" THEN 0 ELSE writer
    /\ readers' = IF ret[t].err = "" THEN readers \cup {u \in Threads : pc[u] = "rwait"}
                                     ELSE readers
    /\ Continue(t)
    /\ UNCHANGED <<heap, users, menu>>

\* defer r.mutex.Unlock(): the readers that slept on this writer hold the read
\* lock from here on; each wakes in RLockWake.
Unlock(t) ==
    /\ pc[t] = "Unlock"
    /\ writer' = 0
    /\ readers' = readers \cup {u \in Threads : pc[u] = "rwait"}
    /\ Continue(t)
    /\ UNCHANGED <<heap, users, menu>>

\* A reader that slept in RLock runs again, the read lock already counted as its.
RLockWake(t) ==
    /\ pc[t] = "rwait"
    /\ t \in readers
    /\ pc' = [pc EXCEPT ![t] = Body(rop[t].op)]
    /\ UNCHANGED <<heap, users, writer, readers, cur, rop, loc, ret, menu, hist>>

(* --------------------------- store methods ---------------------------- *)

\* GetAll: result := make(..., len(r.users)); copy(result, r.users); return result, nil
GetAllBody(t) ==
    /\ pc[t] = "GetAll"
    /\ ret' = [ret EXCEPT ![t] = [NoRet EXCEPT !.list = users]]
    /\ pc' = [pc EXCEPT ![t] = "RUnlock"]
    /\ UNCHANGED <<heap, users, writer, readers, cur, rop, loc, menu, hist>>

\* GetByID's scan: the pointer held in the slice at the first match, or
\* nil and "user not found".
GetByIDRet(us, h, id) ==
    LET i == IndexOf(us, h, id)
    IN  IF i = 0 THEN [NoRet EXCEPT !.err = ErrNotFound]
        ELSE [NoRet EXCEPT !.user = us[i]]

GetByIDBody(t) ==
    /\ pc[t] = "GetByID"
    /\ ret' = [ret EXCEPT ![t] = GetByIDRet(users, heap, rop[t].id)]
    /\ pc' = [pc EXCEPT ![t] = "RUnlock"]
    /\ UNCHANGED <<heap, users, writer, readers, cur, rop, loc, menu, hist>>

\* Create: r.users = append(r.users, user) reads the slice ...
CreateRead(t) ==
    /\ pc[t] = "CreateRead"
    /\ loc' = [loc EXCEPT ![t].snap = users]
    /\ pc' = [pc EXCEPT ![t] = "CreateWrite"]
    /\ UNCHANGED <<heap, users, writer, readers, cur, rop, ret, menu, hist>>

\* Mutant of CreateWrite: a record whose id is already stored is refused.
CreateWriteRefusesDuplicate(t) ==
    /\ pc[t] = "CreateWrite"
    /\ IF IndexOf(users, heap, heap[rop[t].user].ID) = 0
       THEN /\ users' = Append(loc[t].snap, rop[t].user)
            /\ ret' = [ret EXCEPT ![t] = [NoRet EXCEPT !.user = rop[t].user]]
       ELSE /\ users' = users
            /\ ret' = [ret EXCEPT ![t] = [NoRet EXCEPT !.err = "user already exists"]]
    /\ pc' = [pc EXCEPT ![t] = "Unlock"]
    /\ UNCHANGED <<heap, writer, readers, cur, rop, loc, menu, hist>>

\* ... and stores the appended slice; return user, nil.
CreateWrite(t) ==
    /\ pc[t] = "CreateWrite"
    /\ users' = Append(loc[t].snap, rop[t].user)
    /\ ret' = [ret EXCEPT ![t] = [NoRet EXCEPT !.user = rop[t].user]]
    /\ pc' = [pc EXCEPT ![t] = "Unlock"]
    /\ UNCHANGED <<heap, writer, readers, cur, rop, loc, menu, hist>>

\* Mutant of UpdateScan: a record whose id is not found is appended (an upsert).
UpdateScanUpserts(t) ==
    /\ pc[t] = "UpdateScan"
    /\ LET i == IndexOf(users, heap, heap[rop[t].user].ID)
       IN  IF i = 0
           THEN /\ users' = Append(users, rop[t].user)
                /\ ret' = [ret EXCEPT ![t] = [NoRet EXCEPT !.user = rop[t].user]]
                /\ pc' = [pc EXCEPT ![t] = "Unlock"]
                /\ loc' = loc
           ELSE /\ loc' = [loc EXCEPT ![t].snap = users, ![t].i = i]
                /\ pc' = [pc EXCEPT ![t] = "UpdateWrite"]
                /\ UNCHANGED <<users, ret>>
    /\ UNCHANGED <<heap, writer, readers, cur, rop, menu, hist>>

\* Update: the scan of r.users for user.ID; no match returns nil, "user not found".
UpdateScan(t) ==
    /\ pc[t] = "UpdateScan"
    /\ LET i == IndexOf(users, heap, heap[rop[t].user].ID)
       IN  IF i = 0
           THEN /\ ret' = [ret EXCEPT ![t] = [NoRet EXCEPT !.err = ErrNotFound]]
                /\ pc' = [pc EXCEPT ![t] = "Unlock"]
                /\ loc' = loc
           ELSE /\ loc' = [loc EXCEPT ![t].snap = users, ![t].i = i]
                /\ pc' = [pc EXCEPT ![t] = "UpdateWrite"]
                /\ ret' = ret
    /\ UNCHANGED <<heap, users, writer, readers, cur, rop, menu, hist>>

\* Mutant of UpdateWrite: the record is appended, not put in the place of the
\* one found.
UpdateWriteAppends(t) ==
    /\ pc[t] = "UpdateWrite"
    /\ users' = Append(users, rop[t].user)
    /\ ret' = [ret EXCEPT ![t] = [NoRet EXCEPT !.user = rop[t].user]]
    /\ pc' = [pc EXCEPT ![t] = "Unlock"]
    /\ UNCHANGED <<heap, writer, readers, cur, rop, loc, menu, hist>>

\* Mutant of UpdateWrite: the scan does not return at the first match, so every
\* record with the id is replaced.
UpdateWriteAll(t) ==
    /\ pc[t] = "UpdateWrite"
    /\ users' = [k \in 1..Len(users) |->
                    IF heap[users[k]].ID = heap[rop[t].user].ID THEN rop[t].user
                    ELSE users[k]]
    /\ ret' = [ret EXCEPT ![t] = [NoRet EXCEPT !.user = rop[t].user]]
    /\ pc' = [pc EXCEPT ![t] = "Unlock"]
    /\ UNCHANGED <<heap, writer, readers, cur, rop, loc, menu, hist>>

\* Update: r.users[i] = user; return user, nil.  (An index past the end panics.)
UpdateWrite(t) ==
    /\ pc[t] = "UpdateWrite"
    /\ IF loc[t].i \in 1..Len(users)
       THEN /\ users' = [users EXCEPT ![loc[t].i] = rop[t].user]
            /\ ret' = [ret EXCEPT ![t] = [NoRet EXCEPT !.user = rop[t].user]]
            /\ pc' = [pc EXCEPT ![t] = "Unlock"]
       ELSE /\ pc' = [pc EXCEPT ![t] = "panic"]
            /\ UNCHANGED <<users, ret>>
    /\ UNCHANGED <<heap, writer, readers, cur, rop, loc, menu, hist>>

\* Mutant of DeleteScan: a scan that finds no match returns nil.
DeleteScanSilent(t) ==
    /\ pc[t] = "DeleteScan"
    /\ LET i == IndexOf(users, heap, rop[t].id)
       IN  IF i = 0
           THEN /\ ret' = [ret EXCEPT ![t] = NoRet]
                /\ pc' = [pc EXCEPT ![t] = "Unlock"]
                /\ loc' = loc
           ELSE /\ loc' = [loc EXCEPT ![t].snap = users, ![t].i = i]
                /\ pc' = [pc EXCEPT ![t] = "DeleteWrite"]
                /\ ret' = ret
    /\ UNCHANGED <<heap, users, writer, readers, cur, rop, menu, hist>>

\* Delete: the scan of r.users for id; no match returns "user not found".
DeleteScan(t) ==
    /\ pc[t] = "DeleteScan"
    /\ LET i == IndexOf(users, heap, rop[t].id)
       IN  IF i = 0
           THEN /\ ret' = [ret EXCEPT ![t] = [NoRet EXCEPT !.err = ErrNotFound]]
                /\ pc' = [pc EXCEPT ![t] = "Unlock"]
                /\ loc' = loc
           ELSE /\ loc' = [loc EXCEPT ![t].snap = users, ![t].i = i]
                /\ pc' = [pc EXCEPT ![t] = "DeleteWrite"]
                /\ ret' = ret
    /\ UNCHANGED <<heap, users, writer, readers, cur, rop, menu, hist>>

\* Mutant of DeleteWrite: the result of append is not stored, so r.users keeps
\* its length and its last element stays behind the shifted ones.
DeleteWriteDropsResult(t) ==
    /\ pc[t] = "DeleteWrite"
    /\ loc[t].i \in 1..Len(users)
    /\ users' = Append(RemoveAt(users, loc[t].i), users[Len(users)])
    /\ ret' = [ret EXCEPT ![t] = NoRet]
    /\ pc' = [pc EXCEPT ![t] = "Unlock"]
    /\ UNCHANGED <<heap, writer, readers, cur, rop, loc, menu, hist>>

\* Delete: r.users = append(r.users[:i], r.users[i+1:]...); return nil.
DeleteWrite(t) ==
    /\ pc[t] = "DeleteWrite"
    /\ IF loc[t].i \in 1..Len(users)
       THEN /\ users' = RemoveAt(users, loc[t].i)
            /\ ret' = [ret EXCEPT ![t] = NoRet]
            /\ pc' = [pc EXCEPT ![t] = "Unlock"]
       ELSE /\ pc' = [pc EXCEPT ![t] = "panic"]
            /\ UNCHANGED <<users, ret>>
    /\ UNCHANGED <<heap, writer, readers, cur, rop, loc, menu, hist>>

(* A UserRepository that can fail: the service is written against the
   interface, and its tests give it a repository whose methods return
   "repository error" on demand. *)

\* if m.shouldFail... { return nil, errors.New("repository error") }
RepoFails(t) ==
    /\ pc[t] \in {"RLock", "Lock"}
    /\ cur[t].layer = "service"
    /\ ret' = [ret EXCEPT ![t] = [NoRet EXCEPT !.err = ErrRepository]]
    /\ pc' = [pc EXCEPT ![t] = "Return"]
    /\ UNCHANGED <<heap, users, writer, readers, cur, rop, loc, menu, hist>>

\* The failed method returns to the service.
RepoReturn(t) ==
    /\ pc[t] = "Return"
    /\ Continue(t)
    /\ UNCHANGED <<heap, users, writer, readers, menu>>

(* ------------------------- direct store callers ----------------------- *)

GetAll(t) ==
    /\ CanCall(t)
    /\ Enter(t, Call("store", "GetAll", "", "", ""), [NoOp EXCEPT !.op = "GetAll"])
    /\ UNCHANGED <<heap, users, writer, readers, menu>>

GetByID(t) ==
    /\ CanCall(t)
    /\ \E id \in CallIds :
         Enter(t, Call("store", "GetByID", id, "", ""),
               [NoOp EXCEPT !.op = "GetByID", !.id = id])
    /\ UNCHANGED <<heap, users, writer, readers, menu>>

\* repo.Create(entities.NewUserWithID(id, name, email))
Create(t) ==
    /\ CanCall(t)
    /\ \E id \in CallIds, d \in menu.data :
         /\ heap' = Append(heap, NewUserWithID(id, d[1], d[2]))
         /\ Enter(t, Call("store", "Create", id, d[1], d[2]),
                  [NoOp EXCEPT !.op = "Create", !.id = id, !.user = Len(heap) + 1])
    /\ UNCHANGED <<users, writer, readers, menu>>

\* repo.Update(entities.NewUserWithID(id, name, email))
Update(t) ==
    /\ CanCall(t)
    /\ \E id \in CallIds, d \in menu.data :
         /\ heap' = Append(heap, NewUserWithID(id, d[1], d[2]))
         /\ Enter(t, Call("store", "Update", id, d[1], d[2]),
                  [NoOp EXCEPT !.op = "Update", !.id = id, !.user = Len(heap) + 1])
    /\ UNCHANGED <<users, writer, readers, menu>>

Delete(t) ==
    /\ CanCall(t)
    /\ \E id \in CallIds :
         Enter(t, Call("store", "Delete", id, "", ""),
               [NoOp EXCEPT !.op = "Delete", !.id = id])
    /\ UNCHANGED <<heap, users, writer, readers, menu>>

(* ------------------------------ service ------------------------------- *)

\* s.GetAllUsers() up to its store call.
GetAllUsersCall(t) ==
    /\ Enter(t, Call("service", "GetAllUsers", "", "", ""), [NoOp EXCEPT !.op = "GetAll"])
    /\ UNCHANGED <<heap, users, writer, readers, menu>>

GetAllUsers(t) ==
    /\ CanCall(t)
    /\ GetAllUsersCall(t)

\* s.GetUserByID(id) up to its store call.
GetUserByIDCall(t, id) ==
    /\ LET c == Call("service", "GetUserByID", id, "", "")
       IN  IF id = ""
           THEN Done(t, c, [NoRet EXCEPT !.err = ErrInvalidID])
           ELSE Enter(t, c, [NoOp EXCEPT !.op = "GetByID", !.id = id])
    /\ UNCHANGED <<heap, users, writer, readers, menu>>

GetUserByID(t) ==
    /\ CanCall(t)
    /\ \E id \in CallIds : GetUserByIDCall(t, id)

\* Mutant of CreateUserCall: the user.IsValid() check is missing.
CreateUserCallUnchecked(t, name, email) ==
    /\ LET c == Call("service", "CreateUser", "", name, email)
           user == NewUser(heap, name, email)
       IN  /\ heap' = Append(heap, user)
           /\ Enter(t, c, [NoOp EXCEPT !.op = "Create", !.id = user.ID,
                                       !.user = Len(heap) + 1])
    /\ UNCHANGED <<users, writer, readers, menu>>

\* s.CreateUser(name, email) up to its store call.
CreateUserCall(t, name, email) ==
    /\ LET c == Call("service", "CreateUser", "", name, email)
           user == NewUser(heap, name, email)
       IN  /\ heap' = Append(heap, user)
           /\ IF ~IsValid(user)
              THEN Done(t, c, [NoRet EXCEPT !.err = ErrInvalidData])
              ELSE Enter(t, c, [NoOp EXCEPT !.op = "Create", !.id = user.ID,
                                            !.user = Len(heap) + 1])
    /\ UNCHANGED <<users, writer, readers, menu>>

CreateUser(t) ==
    /\ CanCall(t)
    /\ \E d \in menu.data : CreateUserCall(t, d[1], d[2])

\* Mutant of UpdateUserCall: the name and email are checked before the id.
UpdateUserCallDataFirst(t, id, name, email) ==
    /\ LET c == Call("service", "UpdateUser", id, name, email)
       IN  IF name = "" \/ email = ""
           THEN Done(t, c, [NoRet EXCEPT !.err = ErrInvalidData])
           ELSE IF id = ""
           THEN Done(t, c, [NoRet EXCEPT !.err = ErrInvalidID])
           ELSE Enter(t, c, [NoOp EXCEPT !.op = "GetByID", !.id = id])
    /\ UNCHANGED <<heap, users, writer, readers, menu>>

\* s.UpdateUser(id, name, email) up to its existence check s.userRepo.GetByID(id).
UpdateUserCall(t, id, name, email) ==
    /\ LET c == Call("service", "UpdateUser", id, name, email)
       IN  IF id = ""
           THEN Done(t, c, [NoRet EXCEPT !.err = ErrInvalidID])
           ELSE IF name = "" \/ email = ""
           THEN Done(t, c, [NoRet EXCEPT !.err = ErrInvalidData])
           ELSE Enter(t, c, [NoOp EXCEPT !.op = "GetByID", !.id = id])
    /\ UNCHANGED <<heap, users, writer, readers, menu>>

UpdateUser(t) ==
    /\ CanCall(t)
    /\ \E id \in CallIds, d \in menu.data : UpdateUserCall(t, id, d[1], d[2])

\* UpdateUser: existingUser.UpdateName(name), on the User GetByID returned.
SvcUpdateName(t) ==
    /\ pc[t] = "UpdateName"
    /\ heap' = UpdateName(heap, loc[t].existing, cur[t].name)
    /\ pc' = [pc EXCEPT ![t] = "UpdateEmail"]
    /\ UNCHANGED <<users, writer, readers, cur, rop, loc, ret, menu, hist>>

\* UpdateUser: existingUser.UpdateEmail(email), the IsValid check, and on to
\* s.userRepo.Update(existingUser).
SvcUpdateEmail(t) ==
    /\ pc[t] = "UpdateEmail"
    /\ heap' = UpdateEmail(heap, loc[t].existing, cur[t].email)
    /\ IF ~IsValid(heap'[loc[t].existing])
       THEN Done(t, cur[t], [NoRet EXCEPT !.err = ErrInvalidData])
       ELSE Enter(t, cur[t], [NoOp EXCEPT !.op = "Update", !.id = cur[t].id,
                                         !.user = loc[t].existing])
    /\ UNCHANGED <<users, writer, readers, menu>>

\* Mutant of DeleteUserCall: the id == "" check is missing.
DeleteUserCallUnchecked(t, id) ==
    /\ Enter(t, Call("service", "DeleteUser", id, "", ""),
             [NoOp EXCEPT !.op = "GetByID", !.id = id])
    /\ UNCHANGED <<heap, users, writer, readers, menu>>

\* s.DeleteUser(id) up to its existence check s.userRepo.GetByID(id).
DeleteUserCall(t, id) ==
    /\ LET c == Call("service", "DeleteUser", id, "", "")
       IN  IF id = ""
           THEN Done(t, c, [NoRet EXCEPT !.err = ErrInvalidID])
           ELSE Enter(t, c, [NoOp EXCEPT !.op = "GetByID", !.id = id])
    /\ UNCHANGED <<heap, users, writer, readers, menu>>

DeleteUser(t) ==
    /\ CanCall(t)
    /\ \E id \in CallIds : DeleteUserCall(t, id)

(* ------------------------------ handlers ------------------------------ *)

StatusOK == 200
StatusCreated == 201
StatusNoContent == 204
StatusBadRequest == 400
StatusNotFound == 404
StatusInternalServerError == 500

ErrService == "service error"

\* What json.NewDecoder(r.Body).Decode(&requestBody) leaves: an error, or the
\* name and email of the body (a field the body lacks stays "").
Bodies ==
    {[ok |-> FALSE, name |-> "", email |-> ""]}
        \cup {[ok |-> TRUE, name |-> d[1], email |-> d[2]] : d \in menu.data}

NoBody == [ok |-> TRUE, name |-> "", email |-> ""]

Reply(status, ctype, body) == [status |-> status, ctype |-> ctype, body |-> body]

\* http.Error(w, msg, code): plain text, the message and a newline.
HttpError(msg, code) == Reply(code, "text/plain; charset=utf-8", <<msg, "\n">>)

\* w.Header().Set("Content-Type", "application/json"); json.NewEncoder(w).Encode(v)
\* with the status written before it, or 200.
Json(code, v) == Reply(code, "application/json", v)

\* Mutant of HandlerReply: DeleteUser ends without w.WriteHeader(http.StatusNoContent).
HandlerReplyNoWriteHeader(e) ==
    LET user == IF e.user = NoUser THEN "null" ELSE heap[e.user]
    IN  CASE e.op = "GetAllUsers" ->
               IF e.err # "" THEN HttpError("Failed to get users", StatusInternalServerError)
               ELSE Json(StatusOK, [k \in 1..Len(e.list) |-> heap[e.list[k]]])
          [] e.op = "GetUserByID" ->
               IF e.err = ErrNotFound THEN HttpError("User not found", StatusNotFound)
               ELSE IF e.err # "" THEN HttpError("Failed to get user", StatusInternalServerError)
               ELSE Json(StatusOK, user)
          [] e.op = "CreateUser" ->
               IF e.err = ErrInvalidData THEN HttpError(e.err, StatusBadRequest)
               ELSE IF e.err # "" THEN HttpError("Failed to create user", StatusInternalServerError)
               ELSE Json(StatusCreated, user)
          [] e.op = "UpdateUser" ->
               IF e.err = ErrNotFound THEN HttpError("User not found", StatusNotFound)
               ELSE IF e.err = ErrInvalidData THEN HttpError(e.err, StatusBadRequest)
               ELSE IF e.err # "" THEN HttpError("Failed to update user", StatusInternalServerError)
               ELSE Json(StatusOK, user)
          [] e.op = "DeleteUser" ->
               IF e.err = ErrNotFound THEN HttpError("User not found", StatusNotFound)
               ELSE IF e.err # "" THEN HttpError("Failed to delete user", StatusInternalServerError)
               ELSE Reply(StatusOK, "", <<>>)

\* The handler's code after its service call returned e: the handler is the one
\* that calls service method e.op.  A User is encoded as it reads now.
HandlerReply(e) ==
    LET user == IF e.user = NoUser THEN "null" ELSE heap[e.user]
    IN  CASE e.op = "GetAllUsers" ->
               IF e.err # "" THEN HttpError("Failed to get users", StatusInternalServerError)
               ELSE Json(StatusOK, [k \in 1..Len(e.list) |-> heap[e.list[k]]])
          [] e.op = "GetUserByID" ->
               IF e.err = ErrNotFound THEN HttpError("User not found", StatusNotFound)
               ELSE IF e.err # "" THEN HttpError("Failed to get user", StatusInternalServerError)
               ELSE Json(StatusOK, user)
          [] e.op = "CreateUser" ->
               IF e.err = ErrInvalidData THEN HttpError(e.err, StatusBadRequest)
               ELSE IF e.err # "" THEN HttpError("Failed to create user", StatusInternalServerError)
               ELSE Json(StatusCreated, user)
          [] e.op = "UpdateUser" ->
               IF e.err = ErrNotFound THEN HttpError("User not found", StatusNotFound)
               ELSE IF e.err = ErrInvalidData THEN HttpError(e.err, StatusBadRequest)
               ELSE IF e.err # "" THEN HttpError("Failed to update user", StatusInternalServerError)
               ELSE Json(StatusOK, user)
          [] e.op = "DeleteUser" ->
               IF e.err = ErrNotFound THEN HttpError("User not found", StatusNotFound)
               ELSE IF e.err # "" THEN HttpError("Failed to delete user", StatusInternalServerError)
               ELSE Reply(StatusNoContent, "", <<>>)

\* The handler that calls service method op.
HandlerOf(op) ==
    CASE op = "GetAllUsers" -> "GetUsers"
      [] op = "GetUserByID" -> "GetUser"
      [] OTHER -> op

\* The last call of thread t was made by a handler that has not answered yet.
Pending(t) ==
    LET mine == CallsOf(t)
    IN  mine # <<>> /\ mine[Len(mine)].layer = "service"

\* Requests begun so far.
Requests ==
    Cardinality({k \in 1..Len(hist) : hist[k].layer = "http"})
        + Cardinality({t \in menu.active : pc[t] # "idle" \/ Pending(t)})

CanRequest(t) ==
    /\ t \in menu.active
    /\ pc[t] = "idle" /\ ~Pending(t)
    /\ Requests < menu.calls
    /\ Requests = 0 => \A u \in menu.active : t <= u

\* The response the client of thread t receives, with the request it answers.
Response(t, handler, id, body, reply) ==
    [t |-> t, layer |-> "http", op |-> handler, id |-> id, name |-> body.name,
     email |-> body.email, decoded |-> body.ok, user |-> NoUser, err |-> "",
     status |-> reply.status, ctype |-> reply.ctype, body |-> reply.body]

\* The handler writes its response and returns.
Answer(t, handler, id, body, reply) ==
    /\ hist' = Append(hist, Response(t, handler, id, body, reply))
    /\ UNCHANGED <<heap, users, writer, readers, pc, cur, rop, loc, ret, menu>>

\* h.userService is a service that fails: return nil, errors.New("service error")
ServiceFails(t, op, id, name, email) ==
    /\ Done(t, Call("service", op, id, name, email), [NoRet EXCEPT !.err = ErrService])
    /\ UNCHANGED <<heap, users, writer, readers, menu>>

\* GetUsers, up to the return of h.userService.GetAllUsers().
HandlerGetUsers(t) ==
    /\ CanRequest(t)
    /\ \E f \in menu.fails :
         IF f THEN ServiceFails(t, "GetAllUsers", "", "", "") ELSE GetAllUsersCall(t)

\* Mutant of HandlerGetUser: the id == "" check is missing.
HandlerGetUserUnchecked(t) ==
    /\ CanRequest(t)
    /\ \E id \in CallIds, f \in menu.fails :
         IF f THEN ServiceFails(t, "GetUserByID", id, "", "")
         ELSE GetUserByIDCall(t, id)

\* GetUser, up to the return of h.userService.GetUserByID(id).
HandlerGetUser(t) ==
    /\ CanRequest(t)
    /\ \E id \in CallIds, f \in menu.fails :
         IF id = ""
         THEN Answer(t, "GetUser", id, NoBody, HttpError("Invalid user ID", StatusBadRequest))
         ELSE IF f THEN ServiceFails(t, "GetUserByID", id, "", "")
         ELSE GetUserByIDCall(t, id)

\* CreateUser, up to the return of h.userService.CreateUser(name, email).
HandlerCreateUser(t) ==
    /\ CanRequest(t)
    /\ \E b \in Bodies, f \in menu.fails :
         IF ~b.ok
         THEN Answer(t, "CreateUser", "", b, HttpError("Invalid JSON", StatusBadRequest))
         ELSE IF f THEN ServiceFails(t, "CreateUser", "", b.name, b.email)
         ELSE CreateUserCall(t, b.name, b.email)

\* UpdateUser, up to the return of h.userService.UpdateUser(id, name, email).
HandlerUpdateUser(t) ==
    /\ CanRequest(t)
    /\ \E id \in CallIds, b \in Bodies, f \in menu.fails :
         IF id = ""
         THEN Answer(t, "UpdateUser", id, b, HttpError("Invalid user ID", StatusBadRequest))
         ELSE IF ~b.ok
         THEN Answer(t, "UpdateUser", id, b, HttpError("Invalid JSON", StatusBadRequest))
         ELSE IF f THEN ServiceFails(t, "UpdateUser", id, b.name, b.email)
         ELSE UpdateUserCall(t, id, b.name, b.email)

\* DeleteUser, up to the return of h.userService.DeleteUser(id).
HandlerDeleteUser(t) ==
    /\ CanRequest(t)
    /\ \E id \in CallIds, f \in menu.fails :
         IF id = ""
         THEN Answer(t, "DeleteUser", id, NoBody, HttpError("Invalid user ID", StatusBadRequest))
         ELSE IF f THEN ServiceFails(t, "DeleteUser", id, "", "")
         ELSE DeleteUserCall(t, id)

\* The rest of each handler: the status, headers and body for what the service
\* returned.
HandlerRespond(t) ==
    /\ pc[t] = "idle" /\ Pending(t)
    /\ LET mine == CallsOf(t)
           e == mine[Len(mine)]
       IN  Answer(t, HandlerOf(e.op), e.id, [ok |-> TRUE, name |-> e.name, email |-> e.email],
                  HandlerReply(e))

(* The API route handlers; each is called with the request whatever its method. *)

Methods == {"GET", "POST", "PUT", "DELETE", "HEAD"}

\* The response with the method of the request it answers.
ApiResponse(t, handler, method, reply) ==
    [method |-> method] @@ Response(t, handler, "", NoBody, reply)

healthHandler(t) ==
    /\ CanRequest(t)
    /\ \E method \in Methods :
         hist' = Append(hist, ApiResponse(t, "healthHandler", method,
                     Json(StatusOK, [status |-> "healthy", version |-> "v1",
                                     service |-> "hanacaraka"])))
    /\ UNCHANGED <<heap, users, writer, readers, pc, cur, rop, loc, ret, menu>>

healthV2Handler(t) ==
    /\ CanRequest(t)
    /\ \E method \in Methods :
         hist' = Append(hist, ApiResponse(t, "healthV2Handler", method,
                     Json(StatusOK, [status |-> "healthy", version |-> "v2",
                                     service |-> "hanacaraka",
                                     features |-> <<"enhanced_logging", "metrics",
                                                    "tracing">>])))
    /\ UNCHANGED <<heap, users, writer, readers, pc, cur, rop, loc, ret, menu>>

(* --------------------------- specifications --------------------------- *)

LockStep(t) ==
    \/ RLock(t) \/ RLockWake(t) \/ RUnlock(t)
    \/ Lock(t) \/ LockDrain(t) \/ Unlock(t)

StoreStep(t) ==
    \/ GetAllBody(t) \/ GetByIDBody(t)
    \/ CreateRead(t) \/ CreateWrite(t)
    \/ UpdateScan(t) \/ UpdateWrite(t)
    \/ DeleteScan(t) \/ DeleteWrite(t)

Next ==
    \E t \in Threads :
        \/ GetAll(t) \/ GetByID(t) \/ Create(t) \/ Update(t) \/ Delete(t)
        \/ GetAllUsers(t) \/ GetUserByID(t) \/ CreateUser(t)
        \/ UpdateUser(t) \/ SvcUpdateName(t) \/ SvcUpdateEmail(t) \/ DeleteUser(t)
        \/ LockStep(t) \/ StoreStep(t)

Spec == Init /\ [][Next]_vars

\* Direct callers of the store only.
NextStore ==
    \E t \in Threads :
        \/ GetAll(t) \/ GetByID(t) \/ Create(t) \/ Update(t) \/ Delete(t)
        \/ LockStep(t) \/ StoreStep(t)

SpecStore == Init /\ [][NextStore]_vars

\* TestMemoryUserRepository_ConcurrentAccess: NCreators goroutines each create a
\* User with a fresh id while another goroutine calls GetAll.
Creators == 1..NCreators
Lister == NCreators + 1

ConcurrentCreate(t) ==
    /\ t \in Creators
    /\ pc[t] = "idle"
    /\ CallsOf(t) = <<>>
    /\ LET user == NewUser(heap, "User", "user@example.com")
       IN  /\ heap' = Append(heap, user)
           /\ Enter(t, Call("store", "Create", user.ID, user.Name, user.Email),
                    [NoOp EXCEPT !.op = "Create", !.id = user.ID, !.user = Len(heap) + 1])
    /\ UNCHANGED <<users, writer, readers, menu>>

ConcurrentGetAll(t) ==
    /\ t = Lister
    /\ pc[t] = "idle"
    /\ Len(CallsOf(t)) < MaxLists
    /\ Enter(t, Call("store", "GetAll", "", "", ""), [NoOp EXCEPT !.op = "GetAll"])
    /\ UNCHANGED <<heap, users, writer, readers, menu>>

InitConcurrent ==
    /\ Constructed
    /\ menu = [ids |-> {}, data |-> {}, calls |-> 0, active |-> {}]

NextConcurrent ==
    \E t \in Threads :
        \/ ConcurrentCreate(t) \/ ConcurrentGetAll(t)
        \/ LockStep(t)
        \/ GetAllBody(t) \/ CreateRead(t) \/ CreateWrite(t)

SpecConcurrent == InitConcurrent /\ [][NextConcurrent]_vars

\* The example scenario: thread 1 runs CreateUser("Alice", ...), GetUserByID(id),
\* DeleteUser(id), GetUserByID(id) with the id it was given, while thread 2
\* makes calls of its own choice, which cannot name that id.
LifecycleCall(t) ==
    /\ t = 1
    /\ pc[t] = "idle"
    /\ LET mine == CallsOf(t)
       IN  CASE Len(mine) = 0 -> CreateUserCall(t, Alice[1], Alice[2])
             [] Len(mine) \in {1, 3} -> GetUserByIDCall(t, mine[1].val.ID)
             [] Len(mine) = 2 -> DeleteUserCall(t, mine[1].val.ID)
             [] OTHER -> FALSE

InitLifecycle ==
    /\ Constructed
    /\ menu = [ids |-> ArgIds, data |-> {Alice, Blank}, calls |-> MaxOthers, active |-> {2}]

NextLifecycle == Next \/ \E t \in Threads : LifecycleCall(t)

SpecLifecycle == InitLifecycle /\ [][NextLifecycle]_vars

\* TestMemoryUserRepository_ThreadSafety, with two of its goroutines: each
\* creates a User with a fresh id, gets it, renames it and updates it, lists,
\* and deletes it; a goroutine whose Create failed stops there.
Workers == {1, 2}

ThreadSafetyCall(t) ==
    /\ t \in Workers
    /\ pc[t] = "idle"
    /\ LET mine == CallsOf(t)
           n == Len(mine)
           user == NewUser(heap, "Concurrent User", "concurrent@example.com")
       IN  CASE n = 0 ->
                  /\ heap' = Append(heap, user)
                  /\ Enter(t, Call("store", "Create", user.ID, user.Name, user.Email),
                           [NoOp EXCEPT !.op = "Create", !.id = user.ID,
                                        !.user = Len(heap) + 1])
             [] n = 1 /\ mine[1].err = "" ->
                  /\ heap' = heap
                  /\ Enter(t, Call("store", "GetByID", mine[1].val.ID, "", ""),
                           [NoOp EXCEPT !.op = "GetByID", !.id = mine[1].val.ID])
             [] n = 2 ->
                  /\ heap' = UpdateName(heap, mine[1].user, "Updated Name")
                  /\ Enter(t, Call("store", "Update", mine[1].val.ID, "Updated Name",
                                   mine[1].val.Email),
                           [NoOp EXCEPT !.op = "Update", !.id = mine[1].val.ID,
                                        !.user = mine[1].user])
             [] n = 3 ->
                  /\ heap' = heap
                  /\ Enter(t, Call("store", "GetAll", "", "", ""),
                           [NoOp EXCEPT !.op = "GetAll"])
             [] n = 4 ->
                  /\ heap' = heap
                  /\ Enter(t, Call("store", "Delete", mine[1].val.ID, "", ""),
                           [NoOp EXCEPT !.op = "Delete", !.id = mine[1].val.ID])
             [] OTHER -> FALSE
    /\ UNCHANGED <<users, writer, readers, menu>>

NextThreadSafety ==
    \E t \in Threads : ThreadSafetyCall(t) \/ LockStep(t) \/ StoreStep(t)

SpecThreadSafety == InitConcurrent /\ [][NextThreadSafety]_vars

\* A step of a call already begun by thread t.
Step(t) == LockStep(t) \/ StoreStep(t) \/ SvcUpdateName(t) \/ SvcUpdateEmail(t)

InitFair ==
    /\ Constructed
    /\ menu = MenuFair

\* A goroutine that can take its next step, and stays able to, is scheduled in
\* the end (the Go scheduler preempts).  Nothing is assumed of a goroutine at
\* Lock while the lock keeps changing hands.
Fairness ==
    \A t \in Threads : WF_vars(Step(t))

SpecFair == InitFair /\ [][Next]_vars /\ Fairness

\* Callers of the service only, over the in-memory store.
InitService ==
    /\ Constructed
    /\ menu = MenuService

ServiceCall(t) ==
    \/ GetAllUsers(t) \/ GetUserByID(t) \/ CreateUser(t)
    \/ UpdateUser(t) \/ DeleteUser(t)

NextService == \E t \in Threads : ServiceCall(t) \/ Step(t)

SpecService == InitService /\ [][NextService]_vars

\* The same callers with every combination of empty and non-empty arguments.
InitArgs ==
    /\ Constructed
    /\ menu = MenuArgs

SpecArgs == InitArgs /\ [][NextService]_vars

\* The same callers over a repository whose methods can also fail.
NextFailing ==
    \E t \in Threads : ServiceCall(t) \/ Step(t) \/ RepoFails(t) \/ RepoReturn(t)

InitFailing ==
    /\ Constructed
    /\ menu = MenuFailing

SpecFailing == InitFailing /\ [][NextFailing]_vars

\* Service calls that all name the same stored record, none of which creates.
InitRace ==
    /\ Constructed
    /\ menu = MenuRace

NextRace ==
    \E t \in Threads :
        \/ GetAllUsers(t) \/ GetUserByID(t) \/ UpdateUser(t) \/ DeleteUser(t)
        \/ SvcUpdateName(t) \/ SvcUpdateEmail(t)
        \/ LockStep(t)
        \/ GetAllBody(t) \/ GetByIDBody(t)
        \/ UpdateScan(t) \/ UpdateWrite(t)
        \/ DeleteScan(t) \/ DeleteWrite(t)

SpecRace == InitRace /\ [][NextRace]_vars

\* The user handlers, each request on a goroutine of its own.
InitHandlers ==
    /\ Constructed
    /\ menu = MenuHandlers

NextHandlers ==
    \E t \in Threads :
        \/ HandlerGetUsers(t) \/ HandlerGetUser(t) \/ HandlerCreateUser(t)
        \/ HandlerUpdateUser(t) \/ HandlerDeleteUser(t) \/ HandlerRespond(t)
        \/ Step(t)

SpecHandlers == InitHandlers /\ [][NextHandlers]_vars

\* The composed system: the user handlers over the UserService over the
\* in-memory store.
InitComposed ==
    /\ Constructed
    /\ menu = MenuComposed

SpecComposed == InitComposed /\ [][NextHandlers]_vars

\* The health handlers of the two API versions, each request on a goroutine
\* of its own.
InitHealth ==
    /\ Constructed
    /\ menu = [ids |-> {}, data |-> {}, calls |-> MaxRequests, active |-> {1, 2},
               fails |-> {FALSE}]

NextHealth == \E t \in Threads : healthHandler(t) \/ healthV2Handler(t)

SpecHealth == InitHealth /\ [][NextHealth]_vars

(* ------------------------------- claims ------------------------------- *)

\* Positions between taking and releasing the write lock / the read lock.
WriterCS == {"CreateRead", "CreateWrite", "UpdateScan", "UpdateWrite",
             "DeleteScan", "DeleteWrite", "Unlock"}
ReaderCS == {"GetAll", "GetByID", "RUnlock"}

\* The records of the collection, by value and in order.
Stored == [k \in 1..Len(users) |-> heap[users[k]]]

\* No record of the collection has this id.
Absent(id) == \A k \in 1..Len(users) : heap[users[k]].ID # id

Idle == \A t \in Threads : pc[t] = "idle"

\* C2: while a create, update or delete is between Lock and Unlock, no other
\* store method is inside its own critical section; the only methods that are
\* inside together are GetAll and GetByID.
C2_Exclusion ==
    \A t, u \in Threads :
        (t # u /\ pc[t] \in WriterCS) => pc[u] \notin (WriterCS \cup ReaderCS)

\* C2 witness: a writer is inside while a reader sleeps on it or a second
\* writer stands at Lock.
C2_Witness ==
    \E t, u \in Threads :
        /\ pc[t] \in WriterCS
        /\ pc[u] \in {"rwait", "Lock"}

\* C4 (as claimed): every step that changes the collection, or the name or email
\* of a record in it, is taken by the thread that holds the write lock.
C4_WritesUnderLock ==
    [][ (users' # users \/ \E k \in 1..Len(users) : heap'[users[k]] # heap[users[k]])
          => \E t \in Threads : writer = t /\ pc[t] \in WriterCS /\ pc'[t] # pc[t] ]_vars

\* C5 (as claimed): the record a finished GetByID / GetUserByID handed to its
\* caller still reads as it did at the return, whatever has run since.
C5_GetIsACopy ==
    \A k \in 1..Len(hist) :
        (hist[k].op \in {"GetByID", "GetUserByID"} /\ hist[k].user # NoUser)
            => heap[hist[k].user] = hist[k].val

\* C7: the collection, and so what GetAll returns, grows by exactly one record
\* across a store Create and shrinks by exactly one across a store Delete that
\* found its id.
C7_LengthByOne ==
    [][ \A t \in Threads :
          /\ (pc[t] = "CreateWrite" /\ pc'[t] = "Unlock") => Len(users') = Len(users) + 1
          /\ (pc[t] = "DeleteWrite" /\ pc'[t] = "Unlock") => Len(users') = Len(users) - 1
          /\ (pc[t] = "GetAll" /\ pc'[t] = "RUnlock")
                => (Len(ret'[t].list) = Len(users) /\ users' = users) ]_vars

\* C7 witness: a create and a successful delete have both returned.
C7_Witness ==
    \E i, j \in 1..Len(hist) :
        /\ hist[i].op = "Create" /\ hist[i].err = ""
        /\ hist[j].op = "Delete" /\ hist[j].err = ""
        /\ Len(users) = 3

\* C8: store GetByID, Update and Delete whose id no record has (the empty id
\* included) return "user not found" and no record, and leave the collection
\* as it was; the direct caller receives exactly that.
C8_AbsentIsNotFound ==
    [][ \A t \in Threads :
          /\ ( /\ pc[t] \in {"GetByID", "UpdateScan", "DeleteScan"}
               /\ pc'[t] # pc[t]
               /\ Absent(IF pc[t] = "UpdateScan" THEN heap[rop[t].user].ID ELSE rop[t].id) )
             => ( /\ ret'[t] = [user |-> NoUser, list |-> <<>>, err |-> ErrNotFound]
                  /\ pc'[t] \in {"RUnlock", "Unlock"}
                  /\ users' = users /\ heap' = heap )
          /\ ( /\ pc[t] \in {"RUnlock", "Unlock"}
               /\ pc'[t] # pc[t]
               /\ cur[t].layer = "store"
               /\ ret[t].err = ErrNotFound )
             => ( /\ Len(hist') = Len(hist) + 1
                  /\ hist'[Len(hist')].err = ErrNotFound
                  /\ hist'[Len(hist')].user = NoUser
                  /\ users' = users /\ heap' = heap ) ]_vars

\* C8 witness: a direct Update and a direct Delete of the empty id have both
\* returned "user not found".
C8_Witness ==
    \E i, j \in 1..Len(hist) :
        /\ hist[i].layer = "store" /\ hist[i].op = "Update" /\ hist[i].id = ""
        /\ hist[i].err = ErrNotFound
        /\ hist[j].layer = "store" /\ hist[j].op \in {"Delete", "GetByID"}
        /\ hist[j].id \in {"", "zz"} /\ hist[j].err = ErrNotFound

\* The call hist[k] had returned before the call hist[j] began.
Precedes(k, j) == k <= hist[j].before

CreatesDone == {k \in 1..Len(hist) : hist[k].op = "Create"}

\* C1: once the NCreators concurrent creates (distinct ids) and every GetAll
\* have returned, the collection holds 3 + NCreators records, GetByID finds
\* each created record under its id, and a GetAll begun after the last create
\* returned has that length.
C1_NoCreateLost ==
    (Idle /\ Cardinality(CreatesDone) = NCreators) =>
        /\ Len(users) = 3 + NCreators
        /\ \A k \in CreatesDone :
              GetByIDRet(users, heap, hist[k].id) = [NoRet EXCEPT !.user = hist[k].user]
        /\ \A j \in 1..Len(hist) :
              (hist[j].op = "GetAll" /\ \A k \in CreatesDone : Precedes(k, j))
                  => Len(hist[j].list) = 3 + NCreators

\* C1 witness: all creates have returned, two of them overlapped each other and
\* a GetAll, and a later GetAll saw them all.
C1_Witness ==
    /\ Idle
    /\ Cardinality(CreatesDone) = NCreators
    /\ \E i, k \in CreatesDone, j \in 1..Len(hist) :
          /\ i < k /\ ~Precedes(i, k)
          /\ hist[j].op = "GetAll" /\ ~Precedes(i, j) /\ ~Precedes(j, k)
    /\ \E j \in 1..Len(hist) :
          hist[j].op = "GetAll" /\ \A k \in CreatesDone : Precedes(k, j)

(* Linearizability of the store methods: a sequential run on records. *)

SeqIndex(st, id) ==
    LET hits == {i \in 1..Len(st) : st[i].ID = id}
    IN  IF hits = {} THEN 0 ELSE CHOOSE i \in hits : \A j \in hits : i <= j

\* The store after call e runs alone on store st.
SeqAfter(st, e) ==
    LET rec == [ID |-> e.id, Name |-> e.name, Email |-> e.email]
        i == SeqIndex(st, e.id)
    IN  CASE e.op = "Create" -> Append(st, rec)
          [] e.op = "Update" /\ i # 0 -> [st EXCEPT ![i] = rec]
          [] e.op = "Delete" /\ i # 0 -> SubSeq(st, 1, i - 1) \o SubSeq(st, i + 1, Len(st))
          [] OTHER -> st

\* What call e returned is what it returns when run alone on store st.
SeqAgrees(st, e) ==
    LET rec == [ID |-> e.id, Name |-> e.name, Email |-> e.email]
        i == SeqIndex(st, e.id)
        found == e.err = "" /\ e.user # NoUser
        missing == e.err = ErrNotFound /\ e.user = NoUser
    IN  CASE e.op = "GetAll" -> e.err = "" /\ e.vals = st
          [] e.op = "GetByID" -> IF i = 0 THEN missing ELSE found /\ e.val = st[i]
          [] e.op = "Create" -> found /\ e.val = rec
          [] e.op = "Update" -> IF i = 0 THEN missing ELSE found /\ e.val = rec
          [] e.op = "Delete" -> IF i = 0 THEN missing ELSE e.err = "" /\ e.user = NoUser
          [] OTHER -> FALSE

RECURSIVE SeqRun(_, _, _)
\* Running the calls in the order f from position p on store st: the final
\* store, or <<"differs">> when a result differs.
SeqRun(f, p, st) ==
    IF p > Len(f) THEN st
    ELSE IF ~SeqAgrees(st, hist[f[p]]) THEN <<"differs">>
    ELSE SeqRun(f, p + 1, SeqAfter(st, hist[f[p]]))

Orders == {f \in [1..Len(hist) -> 1..Len(hist)] : \A p, q \in 1..Len(hist) : p # q => f[p] # f[q]}

\* f never runs a call before one that had returned before it began.
RealTime(f) == \A p, q \in 1..Len(hist) : p < q => ~Precedes(f[q], f[p])

SeedStored == [k \in 1..3 |-> SeedHeap[k]]

\* C3: when every call has returned, some order of the calls that keeps
\* every call after those that had returned before it began gives, run one by
\* one from the seeded store, the results the callers received and the
\* collection the store now holds.
C3_Linearizable ==
    Idle => \E f \in Orders : RealTime(f) /\ SeqRun(f, 1, SeedStored) = Stored

\* C3 witness: every call has returned, two successful writers that overlapped
\* among them, and the collection has changed.
C3_Witness ==
    /\ Idle
    /\ \E i, j \in 1..Len(hist) :
          /\ i < j /\ ~Precedes(i, j)
          /\ hist[i].op \in {"Create", "Update", "Delete"} /\ hist[i].err = ""
          /\ hist[j].op \in {"Create", "Update", "Delete"} /\ hist[j].err = ""
    /\ Stored # SeedStored

\* The record a store Create is appending, and what GetByID of its id returns
\* right after the append.
CreateFound(t) ==
    LET r == GetByIDRet(users', heap', heap[rop[t].user].ID)
    IN  r.err = "" /\ r.user # NoUser /\ heap'[r.user] = heap[rop[t].user]

\* C6 (as claimed): in every store state, a Create of a record with non-empty
\* name and email followed at once by GetByID of its id returns a record equal
\* to the one created.
C6_CreateThenGet ==
    [][ \A t \in Threads :
          (pc[t] = "CreateWrite" /\ pc'[t] = "Unlock" /\ IsValid(heap[rop[t].user]))
              => CreateFound(t) ]_vars

\* C6 (amended): the same, in every store state in which no record has the id
\* of the record created.
C6_CreateThenGetFreshId ==
    [][ \A t \in Threads :
          ( /\ pc[t] = "CreateWrite" /\ pc'[t] = "Unlock"
            /\ IsValid(heap[rop[t].user])
            /\ Absent(heap[rop[t].user].ID) )
              => CreateFound(t) ]_vars

\* C6 witness: a direct Create of a valid record with an unused id has returned and
\* the GetByID of that id that began after it has returned that record.
C6_Witness ==
    \E k \in 1..Len(hist) :
        /\ k + 1 <= Len(hist)
        /\ hist[k].layer = "store" /\ hist[k].op = "Create" /\ hist[k].id = "zz"
        /\ hist[k].name # "" /\ hist[k].email # ""
        /\ hist[k + 1].op = "GetByID" /\ hist[k + 1].id = "zz" /\ Precedes(k, k + 1)
        /\ hist[k + 1].val = [ID |-> "zz", Name |-> hist[k].name, Email |-> hist[k].email]

\* C9 (as claimed): a successful update, direct or through UpdateUser, keeps the
\* length, every other record and the order, keeps the id at the matching
\* position, sets the name and email given to the call and returns that
\* record; GetByID of the id then returns those values.
C9_UpdateFrame ==
    [][ \A t \in Threads :
          (pc[t] = "UpdateWrite" /\ pc'[t] = "Unlock") =>
             LET i == loc[t].i
                 want == [ID |-> cur[t].id, Name |-> cur[t].name, Email |-> cur[t].email]
                 got == GetByIDRet(users', heap', cur[t].id)
             IN  /\ Len(users') = Len(users)
                 /\ \A k \in 1..Len(users) : k # i => users'[k] = users[k]
                 /\ heap' = heap
                 /\ heap[users[i]].ID = cur[t].id
                 /\ heap'[users'[i]] = want
                 /\ ret'[t].user = users'[i] /\ ret'[t].err = ""
                 /\ got.err = "" /\ heap'[got.user] = want ]_vars

Mine == CallsOf(1)

\* C10: in the lifecycle scenario CreateUser returns a record with a non-empty id
\* and the name and email given; GetUserByID(id) returns the same triple;
\* DeleteUser(id) succeeds; and from then on no record has the id and
\* GetUserByID(id) returns "user not found", whatever the other goroutine does
\* with other ids.
C10_Lifecycle ==
    /\ Len(Mine) >= 1 =>
          /\ Mine[1].err = "" /\ Mine[1].user # NoUser
          /\ Mine[1].val.ID # ""
          /\ Mine[1].val.Name = Alice[1] /\ Mine[1].val.Email = Alice[2]
    /\ Len(Mine) >= 2 => (Mine[2].err = "" /\ Mine[2].val = Mine[1].val)
    /\ Len(Mine) >= 3 =>
          /\ Mine[3].err = ""
          /\ GetByIDRet(users, heap, Mine[1].val.ID) = [NoRet EXCEPT !.err = ErrNotFound]
    /\ Len(Mine) >= 4 => (Mine[4].err = ErrNotFound /\ Mine[4].user = NoUser)

\* C10 witness: the four calls have returned and the other goroutine has changed
\* the collection in between.
C10_Witness ==
    /\ Len(Mine) = 4
    /\ \E k \in 1..Len(hist) :
          /\ hist[k].t = 2 /\ hist[k].op \in {"Create", "CreateUser", "Delete", "DeleteUser"}
          /\ hist[k].err = ""
          /\ \E j \in 1..Len(hist) : hist[j].t = 1 /\ j < k /\ k < Len(hist)

\* C11 (as claimed): the sequence a finished GetAll / GetAllUsers handed to its
\* caller was returned without error and still holds the records, in the order
\* and with the field values, that it held at the return, whatever create,
\* update or delete has run since.
C11_ListIsSnapshot ==
    \A k \in 1..Len(hist) :
        hist[k].op \in {"GetAll", "GetAllUsers"} =>
            /\ hist[k].err = ""
            /\ [j \in 1..Len(hist[k].list) |-> heap[hist[k].list[j]]] = hist[k].vals

\* C12: under fair scheduling every store or service call that has begun
\* returns to its caller: no set of concurrent calls deadlocks or leaves a
\* caller waiting for the lock forever.
C12_Completes ==
    \A t \in Threads : (pc[t] # "idle") ~> (pc[t] = "idle")

\* C12 witness: a writer is on its "user not found" return, still holding the
\* lock, while another goroutine waits for that lock.
C12_Witness ==
    \E t, u \in Threads :
        /\ pc[t] = "Unlock" /\ writer = t /\ ret[t].err = ErrNotFound
        /\ pc[u] \in {"Lock", "rwait"}

\* The call that returns in this step, as its caller receives it.
Returned == hist'[Len(hist')]

\* Thread t begins service method op in this step and returns from it at once,
\* without a store call.
ReturnsAtOnce(t, op) ==
    /\ pc[t] = "idle" /\ pc'[t] = "idle"
    /\ Len(hist') = Len(hist) + 1
    /\ Returned.t = t /\ Returned.layer = "service" /\ Returned.op = op

\* Thread t begins service method op in this step and is now in a store call.
CallsStore(t, op) ==
    /\ pc[t] = "idle" /\ pc'[t] # "idle"
    /\ cur'[t].layer = "service" /\ cur'[t].op = op

\* C13: CreateUser(name, email) returns "invalid user data: name and email are
\* required" and no user exactly when name or email is the empty string (blanks
\* are not empty), then without calling the store or changing the collection;
\* otherwise it calls store Create, which appends exactly one record, with the
\* given name and email and a non-empty generated id, and returns that record.
C13_CreateUserValidates ==
    [][ \A t \in Threads :
          /\ ReturnsAtOnce(t, "CreateUser") =>
                /\ Returned.name = "" \/ Returned.email = ""
                /\ Returned.err = ErrInvalidData /\ Returned.user = NoUser
                /\ users' = users
          /\ CallsStore(t, "CreateUser") =>
                /\ cur'[t].name # "" /\ cur'[t].email # ""
                /\ rop'[t].op = "Create" /\ users' = users
          /\ (cur[t].op = "CreateUser" /\ pc'[t] # pc[t]) =>
                IF pc[t] = "CreateWrite"
                THEN /\ Len(users') = Len(users) + 1
                     /\ SubSeq(users', 1, Len(users)) = users
                     /\ heap'[users'[Len(users')]].Name = cur[t].name
                     /\ heap'[users'[Len(users')]].Email = cur[t].email
                     /\ heap'[users'[Len(users')]].ID # ""
                ELSE users' = users
          /\ (cur[t].op = "CreateUser" /\ pc[t] = "Unlock" /\ pc'[t] = "idle") =>
                /\ Returned.err = "" /\ Returned.user = users[Len(users)]
                /\ Returned.val.Name = cur[t].name /\ Returned.val.Email = cur[t].email
                /\ Returned.val.ID # "" ]_vars

\* C13 witness: a CreateUser with blanks for name and email has returned the
\* record it stored, and one with a name and no email has been refused.
C13_Witness ==
    \E i, j \in 1..Len(hist) :
        /\ hist[i].op = "CreateUser" /\ hist[i].name = Spaces[1] /\ hist[i].err = ""
        /\ hist[i].val.Name = Spaces[1] /\ hist[i].user = users[Len(users)]
        /\ hist[j].op = "CreateUser" /\ hist[j].name = OnlyName[1] /\ hist[j].email = ""
        /\ hist[j].err = ErrInvalidData

IdOps == {"GetUserByID", "UpdateUser", "DeleteUser"}

\* C14: GetUserByID, UpdateUser and DeleteUser called with the empty id return
\* "invalid user ID" and no user at once, without a store call and with the
\* collection and its records unchanged.
C14_EmptyIdRefused ==
    [][ \A t \in Threads, op \in IdOps :
          /\ CallsStore(t, op) => cur'[t].id # ""
          /\ (ReturnsAtOnce(t, op) /\ Returned.id = "") =>
                /\ Returned.err = ErrInvalidID /\ Returned.user = NoUser
                /\ rop'[t] = NoOp
                /\ users' = users /\ heap' = heap ]_vars

\* C14 witness: an UpdateUser with the empty id and an empty record, and a
\* DeleteUser with the empty id, have both returned "invalid user ID".
C14_Witness ==
    \E i, j \in 1..Len(hist) :
        /\ hist[i].op = "UpdateUser" /\ hist[i].id = "" /\ hist[i].name = ""
        /\ hist[i].err = ErrInvalidID
        /\ hist[j].op = "DeleteUser" /\ hist[j].id = "" /\ hist[j].err = ErrInvalidID
        /\ Stored = SeedStored

\* C15: when a store call made by a service method returns an error, the
\* service method returns that error and no user to its caller in its next
\* step, with no further store call and the collection unchanged.
C15_ErrorPassedThrough ==
    [][ \A t \in Threads :
          ( /\ cur[t].layer = "service"
            /\ pc[t] \in {"RUnlock", "Unlock", "Return"} /\ pc'[t] # pc[t]
            /\ ret[t].err # "" )
          => ( /\ pc'[t] = "idle" /\ rop'[t] = NoOp
               /\ Len(hist') = Len(hist) + 1
               /\ Returned.t = t /\ Returned.op = cur[t].op
               /\ Returned.err = ret[t].err
               /\ Returned.user = NoUser /\ Returned.list = <<>>
               /\ users' = users /\ heap' = heap ) ]_vars

\* C15 witness: a DeleteUser of an unused id has returned the store's "user
\* not found", and an UpdateUser whose existence check passed is about to
\* return the "repository error" of its store Update.
C15_Witness ==
    /\ \E i \in 1..Len(hist) :
          /\ hist[i].op = "DeleteUser" /\ hist[i].id = "zz"
          /\ hist[i].err = ErrNotFound /\ hist[i].user = NoUser
    /\ \E t \in Threads :
          /\ cur[t].op = "UpdateUser" /\ rop[t].op = "Update"
          /\ pc[t] = "Return" /\ ret[t].err = ErrRepository

WorkersDone == Idle /\ \A t \in Workers : Len(CallsOf(t)) = 5

\* C16: when each goroutine creates, gets, updates, lists and deletes a record
\* with an id of its own on one shared store, no call returns an error in any
\* interleaving, and once they have all finished the collection is the seeded
\* one again, same records in the same order.
C16_NonInterference ==
    /\ \A k \in 1..Len(hist) : hist[k].err = ""
    /\ WorkersDone => Stored = SeedStored

\* C16 witness: both goroutines have finished, and a GetAll of one of them
\* returned the records of both, the other's created first.
C16_Witness ==
    /\ WorkersDone
    /\ \E k \in 1..Len(hist) :
          /\ hist[k].op = "GetAll" /\ Len(hist[k].list) = 5
          /\ hist[k].vals[4].ID # CallsOf(hist[k].t)[1].val.ID
          /\ hist[k].vals[5].ID = CallsOf(hist[k].t)[1].val.ID

\* The names and emails of the sample records.
SampleData ==
    << <<"John Doe", "john@example.com">>, <<"Jane Smith", "jane@example.com">>,
       <<"Bob Johnson", "bob@example.com">> >>

\* These records are the three sample records, in order, each with an id.
IsSample(recs) ==
    /\ Len(recs) = 3
    /\ \A k \in 1..3 :
          /\ recs[k].Name = SampleData[k][1] /\ recs[k].Email = SampleData[k][2]
          /\ recs[k].ID # ""

\* C17: the store as constructed, before any call has begun, holds exactly the
\* three sample records John Doe, Jane Smith, Bob Johnson in this order, each
\* with a non-empty id; a GetAll that is the first and only call returns them.
C17_Seeded ==
    /\ Started = 0 => IsSample(Stored)
    /\ (Started = 1 /\ Len(hist) = 1 /\ hist[1].op = "GetAll") => IsSample(hist[1].vals)

\* C17 witness: the first and only call so far was a GetAll, which returned
\* three records.
C17_Witness ==
    /\ Started = 1 /\ Len(hist) = 1
    /\ hist[1].op = "GetAll" /\ hist[1].err = "" /\ Len(hist[1].list) = 3

\* C18: the only error a store method returns is "user not found": GetAll and
\* Create return no error in any state and for any argument, Create returns
\* the record given, GetByID, Update and Delete return no error or "user not
\* found", and no method panics.
C18_OnlyNotFound ==
    /\ \A t \in Threads :
          /\ pc[t] # "panic"
          /\ ret[t].err \in {"", ErrNotFound}
          /\ rop[t].op \in {"GetAll", "Create"} => ret[t].err = ""
    /\ \A k \in 1..Len(hist) :
          /\ hist[k].err \in {"", ErrNotFound}
          /\ hist[k].op \in {"GetAll", "Create"} => hist[k].err = ""
          /\ hist[k].op = "Create" =>
                hist[k].val = [ID |-> hist[k].id, Name |-> hist[k].name,
                               Email |-> hist[k].email]

\* C18 witness: a Create of a record with an id already stored, and empty name
\* and email, has succeeded, and a Delete has returned "user not found".
C18_Witness ==
    \E i, j \in 1..Len(hist) :
        /\ hist[i].op = "Create" /\ hist[i].id = "u1" /\ hist[i].name = ""
        /\ hist[i].err = "" /\ hist[i].user # NoUser
        /\ hist[j].op = "Delete" /\ hist[j].err = ErrNotFound

\* The status each handler writes when its service call succeeds.
SuccessStatus(handler) ==
    CASE handler = "CreateUser" -> 201
      [] handler = "DeleteUser" -> 204
      [] OTHER -> 200

C20_HealthStatusOnly ==
    \A k \in 1..Len(hist) :
        hist[k].op = "healthHandler" =>
            /\ hist[k].status = 200
            /\ hist[k].ctype = "application/json"
            /\ DOMAIN hist[k].body = {"status"}
            /\ hist[k].body.status = "healthy"

\* The DeleteUser calls that have returned success.
Deleted == {k \in 1..Len(hist) : hist[k].op = "DeleteUser" /\ hist[k].err = ""}

\* Thread t is in UpdateUser or DeleteUser, past the existence check.
PastCheck(t) ==
    /\ cur[t].op \in {"UpdateUser", "DeleteUser"}
    /\ \/ pc[t] \in {"UpdateName", "UpdateEmail"}
       \/ rop[t].op \in {"Update", "Delete"}

\* C21: the lock is not held between the existence check of UpdateUser or
\* DeleteUser and the store call that follows, so a DeleteUser of the same id
\* can take effect in between; the store Update or Delete then finds no record,
\* changes nothing and the call returns "user not found"; and once a
\* DeleteUser(id) has returned success no record has that id again: a get begun
\* later returns "user not found" and a list begun later has no such record.
C21_DeleteBetween ==
    /\ [](\A k \in Deleted :
            /\ Absent(hist[k].id)
            /\ \A j \in 1..Len(hist) :
                  Precedes(k, j) =>
                    /\ (hist[j].op = "GetUserByID" /\ hist[j].id = hist[k].id)
                          => (hist[j].err = ErrNotFound /\ hist[j].user = NoUser)
                    /\ hist[j].op = "GetAllUsers"
                          => \A p \in 1..Len(hist[j].vals) : hist[j].vals[p].ID # hist[k].id)
    /\ [][ \A t \in Threads :
            /\ ( /\ PastCheck(t)
                 /\ pc[t] \in {"UpdateScan", "DeleteScan"} /\ pc'[t] # pc[t]
                 /\ Absent(cur[t].id) )
               => ( /\ ret'[t] = [NoRet EXCEPT !.err = ErrNotFound]
                    /\ pc'[t] = "Unlock"
                    /\ users' = users /\ heap' = heap )
            /\ ( /\ PastCheck(t)
                 /\ pc[t] = "Unlock" /\ pc'[t] # pc[t]
                 /\ ret[t].err = ErrNotFound )
               => ( /\ pc'[t] = "idle"
                    /\ Returned.t = t /\ Returned.op = cur[t].op
                    /\ Returned.err = ErrNotFound /\ Returned.user = NoUser
                    /\ users' = users /\ heap' = heap ) ]_vars

\* C21 witness: a DeleteUser has returned success while an UpdateUser and a
\* second DeleteUser of the same id were past their existence checks; the
\* store Update has found no record, and the second store Delete has yet to
\* take the lock.
C21_Witness ==
    /\ Deleted # {}
    /\ \E t, u \in Threads :
          /\ cur[t].op = "UpdateUser" /\ rop[t].op = "Update"
          /\ pc[t] = "Unlock" /\ ret[t].err = ErrNotFound
          /\ cur[u].op = "DeleteUser" /\ rop[u].op = "Delete" /\ pc[u] = "Lock"
          /\ \A k \in Deleted : hist[k].id = cur[t].id /\ hist[k].id = cur[u].id
          /\ Absent(cur[t].id)

\* C22: a store Delete that finds its id removes exactly one record, the first
\* in collection order with that id; the records before it keep their
\* positions, those after it move up by one, and no record's fields change.
C22_DeleteFrame ==
    [][ \A t \in Threads :
          (pc[t] = "DeleteWrite" /\ pc'[t] = "Unlock") =>
              /\ \E i \in 1..Len(users) :
                    /\ heap[users[i]].ID = rop[t].id
                    /\ \A k \in 1..(i - 1) : heap[users[k]].ID # rop[t].id
                    /\ Len(users') = Len(users) - 1
                    /\ \A k \in 1..(i - 1) : users'[k] = users[k]
                    /\ \A k \in i..(Len(users) - 1) : users'[k] = users[k + 1]
              /\ heap' = heap
              /\ ret'[t].err = "" ]_vars

\* C22 witness: a second record with the id of the first seeded record was
\* created, and a Delete of that id has removed the seeded one and left the
\* other two seeded records and the new one, in this order.
C22_Witness ==
    /\ Len(hist) = 2
    /\ hist[1].op = "Create" /\ hist[1].id = SeedHeap[1].ID
    /\ hist[2].op = "Delete" /\ hist[2].id = SeedHeap[1].ID /\ hist[2].err = ""
    /\ users = <<2, 3, hist[1].user>>

\* The positions of the records with this id, in collection order.
Holders(id) == {k \in 1..Len(users) : heap[users[k]].ID = id}

\* Position k is the first of the collection whose record has this id.
IsFirst(k, id) == k \in Holders(id) /\ \A j \in Holders(id) : k <= j

\* C23: store Create appends its record and returns it whether or not a record
\* with the same id is stored; where several records share an id, GetByID
\* returns the first of them in collection order, Update puts its record in
\* the place of that first one only, and Delete removes that first one only:
\* every later record with the id stays where it was (or moves up by one).
C23_FirstMatchOnly ==
    [][ \A t \in Threads :
          /\ (pc[t] = "CreateWrite" /\ pc'[t] = "Unlock") =>
                /\ users' = Append(users, rop[t].user)
                /\ ret'[t] = [NoRet EXCEPT !.user = rop[t].user]
          /\ (pc[t] = "GetByID" /\ pc'[t] = "RUnlock" /\ Holders(rop[t].id) # {}) =>
                /\ \E k \in 1..Len(users) : IsFirst(k, rop[t].id) /\ ret'[t].user = users[k]
                /\ ret'[t].err = "" /\ users' = users
          /\ (pc[t] = "UpdateWrite" /\ pc'[t] = "Unlock") =>
                \E k \in 1..Len(users) :
                    /\ IsFirst(k, heap[rop[t].user].ID)
                    /\ users' = [users EXCEPT ![k] = rop[t].user]
          /\ (pc[t] = "DeleteWrite" /\ pc'[t] = "Unlock") =>
                \E k \in 1..Len(users) :
                    /\ IsFirst(k, rop[t].id)
                    /\ Holders(rop[t].id)' = {j - 1 : j \in Holders(rop[t].id) \ {k}}
                    /\ \A j \in (k + 1)..Len(users) : users'[j - 1] = users[j] ]_vars

\* C23 witness: a Create of a second record with the id of the first seeded
\* record has succeeded, and an Update of that id has then replaced the seeded
\* record and left the second one, last in the collection, as created.
C23_Witness ==
    /\ Len(hist) = 2
    /\ hist[1].op = "Create" /\ hist[1].id = SeedHeap[1].ID /\ hist[1].err = ""
    /\ hist[2].op = "Update" /\ hist[2].id = SeedHeap[1].ID /\ hist[2].err = ""
    /\ users = <<hist[2].user, 2, 3, hist[1].user>>
    /\ heap[hist[1].user] = hist[1].val

\* C24: UpdateUser checks the id first, then the name and email, then the
\* store: the empty id returns "invalid user ID" whatever the name and email;
\* a non-empty id with an empty name or email returns "invalid user data: name
\* and email are required" whether or not a record has the id; both at once,
\* with no store call; and the store is called, and "user not found" returned,
\* only when all three are non-empty.
C24_UpdateUserCheckOrder ==
    [][ \A t \in Threads :
          /\ ReturnsAtOnce(t, "UpdateUser") =>
                /\ Returned.id = "" \/ Returned.name = "" \/ Returned.email = ""
                /\ Returned.user = NoUser /\ rop'[t] = NoOp
                /\ users' = users /\ heap' = heap
          /\ CallsStore(t, "UpdateUser") =>
                /\ cur'[t].id # "" /\ cur'[t].name # "" /\ cur'[t].email # ""
                /\ rop'[t].op = "GetByID" /\ rop'[t].id = cur'[t].id
          /\ (Len(hist') = Len(hist) + 1 /\ Returned.t = t /\ Returned.op = "UpdateUser") =>
                Returned.err \in
                    CASE Returned.id = "" -> {ErrInvalidID}
                      [] Returned.name = "" \/ Returned.email = "" -> {ErrInvalidData}
                      [] OTHER -> {"", ErrNotFound} ]_vars

\* C24 witness: UpdateUser with the empty id and an empty name and email has
\* returned "invalid user ID", and UpdateUser with an id no record has and an
\* empty email has returned the validation error.
C24_Witness ==
    \E i, j \in 1..Len(hist) :
        /\ hist[i].op = "UpdateUser" /\ hist[i].id = ""
        /\ hist[i].name = "" /\ hist[i].email = "" /\ hist[i].err = ErrInvalidID
        /\ hist[j].op = "UpdateUser" /\ hist[j].id = "zz" /\ Absent("zz")
        /\ hist[j].name # "" /\ hist[j].email = "" /\ hist[j].err = ErrInvalidData

\* The (name, email) pairs a record can have had before or after a whole
\* update or create of this run: those of the seeded records and those the
\* callers pass in.
WholePairs ==
    {<<SeedHeap[k].Name, SeedHeap[k].Email>> : k \in 1..3} \cup menu.data

PairOf(u) == <<u.Name, u.Email>>

\* C25 (as claimed): UpdateUser is atomic: the record a get or a list returns
\* has the name and email from before an update or those of an update, never
\* the name of one with the email of another; and once every call has
\* returned each stored record has the pair of one call.
C25_UpdateUserAtomic ==
    /\ \A k \in 1..Len(hist) :
          /\ (hist[k].op \in {"GetByID", "GetUserByID"} /\ hist[k].user # NoUser)
                => PairOf(hist[k].val) \in WholePairs
          /\ hist[k].op \in {"GetAll", "GetAllUsers"}
                => \A p \in 1..Len(hist[k].vals) : PairOf(hist[k].vals[p]) \in WholePairs
    /\ Idle => \A k \in 1..Len(users) : PairOf(heap[users[k]]) \in WholePairs

\* hist[k] is the only UpdateUser call begun so far.
OnlyUpdate(k) ==
    /\ \A j \in 1..Len(hist) : hist[j].op = "UpdateUser" => j = k
    /\ \A t \in Threads : cur[t].op # "UpdateUser"

\* Record u has the name or the email given to call e.
Shows(u, e) == u.Name = e.name \/ u.Email = e.email

\* C26 (as claimed): an UpdateUser that returned an error, the only update of
\* the run, has left no trace: no get and no list has returned a record with
\* the name or email it was given, and no stored record has them.
C26_FailedUpdateInvisible ==
    \A k \in 1..Len(hist) :
        (hist[k].op = "UpdateUser" /\ hist[k].err # "" /\ OnlyUpdate(k)) =>
            /\ \A j \in 1..Len(hist) :
                  /\ (hist[j].op = "GetUserByID" /\ hist[j].user # NoUser)
                        => ~Shows(hist[j].val, hist[k])
                  /\ hist[j].op = "GetAllUsers"
                        => \A p \in 1..Len(hist[j].vals) : ~Shows(hist[j].vals[p], hist[k])
            /\ \A p \in 1..Len(users) : ~Shows(heap[users[p]], hist[k])

\* The DeleteUser calls that have returned.
DeleteUsers == {k \in 1..Len(hist) : hist[k].op = "DeleteUser"}

\* C27: of the DeleteUser calls on one stored id that run concurrently, exactly
\* one returns success and every other "user not found", in every
\* interleaving; the collection loses the record with that id and no other.
C27_OneDeleteWins ==
    /\ \A k \in DeleteUsers : hist[k].err \in {"", ErrNotFound}
    /\ DeleteUsers # {} => Cardinality(Deleted) = 1
    /\ users = (IF Deleted # {} \/ \E t \in Threads : pc[t] = "Unlock" /\ rop[t].op = "Delete"
                                                      /\ ret[t].err = ""
                THEN <<2, 3>> ELSE <<1, 2, 3>>)
    /\ heap[2] = SeedHeap[2] /\ heap[3] = SeedHeap[3]

\* C27 witness: three DeleteUser calls on the first seeded record, each begun
\* before any of them had returned, have all returned.
C27_Witness ==
    /\ Idle
    /\ Len(hist) = 3 /\ DeleteUsers = {1, 2, 3}
    /\ \A k \in DeleteUsers : hist[k].id = SeedHeap[1].ID /\ hist[k].before = 0
    /\ Cardinality({k \in DeleteUsers : hist[k].err = ErrNotFound}) = 2

\* C28: with fresh ids from the generator and records entering through
\* CreateUser only, in every state the ids of the stored records are pairwise
\* distinct, and no step of CreateUser, UpdateUser or DeleteUser changes the
\* id of a record or the id found at a position that keeps its record.
C28_IdsDistinctAndFixed ==
    /\ [](\A i, j \in 1..Len(users) : i # j => heap[users[i]].ID # heap[users[j]].ID)
    /\ [][ /\ \A a \in 1..Len(heap) : heap'[a].ID = heap[a].ID
           /\ Len(users') = Len(users) =>
                \A k \in 1..Len(users) : heap'[users'[k]].ID = heap[users[k]].ID ]_vars

\* C28 witness: two CreateUser calls that overlapped have both stored their
\* records, under different ids.
C28_Witness ==
    /\ Idle /\ Len(hist) = 2 /\ Len(users) = 5
    /\ \A k \in 1..2 : hist[k].op = "CreateUser" /\ hist[k].err = "" /\ hist[k].before = 0
    /\ hist[1].val.ID # hist[2].val.ID

\* C29: in every state reached from the seeded store by service calls with any
\* arguments, the empty string among them, every record of the collection has
\* a non-empty id, a non-empty name and a non-empty email.
C29_StoredRecordsComplete ==
    \A k \in 1..Len(users) :
        /\ heap[users[k]].ID # ""
        /\ heap[users[k]].Name # ""
        /\ heap[users[k]].Email # ""

\* C29 witness: a CreateUser without a name has been refused and an UpdateUser
\* of a seeded record has succeeded.
C29_Witness ==
    \E i, j \in 1..Len(hist) :
        /\ hist[i].op = "CreateUser" /\ hist[i].name = "" /\ hist[i].err = ErrInvalidData
        /\ hist[j].op = "UpdateUser" /\ hist[j].id = SeedHeap[1].ID /\ hist[j].err = ""
        /\ heap[users[1]].Name = hist[j].name /\ Len(users) = 3

\* The responses written so far.
Responses == {k \in 1..Len(hist) : hist[k].layer = "http"}

\* C30: with the user handlers over the UserService over the in-memory store,
\* every response to every request, whatever its path id, name and email and
\* whatever requests run beside it, has status 200, 201, 204, 400 or 404;
\* none has 500, and no handler panics.
C30_NoServerError ==
    /\ \A k \in Responses :
          hist[k].status \in {StatusOK, StatusCreated, StatusNoContent,
                              StatusBadRequest, StatusNotFound}
    /\ \A t \in Threads : pc[t] # "panic"

\* C30 witness: a request for an id no record has was answered 404 after the
\* service returned "user not found", and an update request with an empty name
\* and email 400 after the service refused it.
C30_Witness ==
    \E i, j \in Responses :
        /\ i > 1 /\ hist[i - 1].layer = "service" /\ hist[i - 1].err = ErrNotFound
        /\ hist[i].id = "zz" /\ hist[i].status = StatusNotFound
        /\ j > 1 /\ hist[j - 1].layer = "service" /\ hist[j - 1].err = ErrInvalidData
        /\ hist[j].op = "UpdateUser" /\ hist[j].name = "" /\ hist[j].status = StatusBadRequest

====
